---- MODULE Spec2Model ----
(***************************************************************************)
(* The JVMTI breakpoint registry of art/runtime/openjdkjvmti:              *)
(* BreakpointUtil::SetBreakpoint, ClearBreakpoint and                      *)
(* RemoveBreakpointsInClass over ArtJvmTiEnv::breakpoints, an              *)
(* unordered_set of Breakpoint {ArtMethod* method_, jlocation location_}.  *)
(***************************************************************************)
EXTENDS Integers, FiniteSets, Sequences, TLC

\* ------------------------------------------------------------------------
\* Bounds
\* ------------------------------------------------------------------------

\* Largest insns_size_in_code_units_ of a method of the modelled dex file.
MaxLen == 2

\* ------------------------------------------------------------------------
\* The runtime objects the registry works on (the method directory)
\* ------------------------------------------------------------------------

\* jmethodID nullptr.
NullMethod == "nullptr"

\* A jmethodID that is not nullptr and does not point to a live ArtMethod.
StaleMethod == "stale"

\* The live ArtMethods: mA is a plain method of class A; iDef is a default
\* method declared in interface I; cpDef is the copy of iDef placed in the
\* method array of a class implementing I; mNat is a native method of class B.
ArtMethods == {"mA", "iDef", "cpDef", "mNat"}

\* Every value an agent may pass as a jmethodID.
MethodIds == {NullMethod, StaleMethod} \cup ArtMethods

Classes == {"A", "I", "B"}

Envs == {"env1", "env2"}

\* What reading through a pointer that designates no object yields when the
\* read faults.
Fault == "fault"

\* ArtMethod::GetDeclaringClass: a copied default method keeps the interface
\* as its declaring class.
GetDeclaringClass(m) ==
  CASE m = "mA" -> "A"
    [] m = "iDef" -> "I"
    [] m = "cpDef" -> "I"
    [] m = "mNat" -> "B"

\* ArtMethod::GetDexMethodIndex: a copy has the index of the method it copies.
GetDexMethodIndex(m) ==
  CASE m = "mA" -> 1
    [] m = "iDef" -> 2
    [] m = "cpDef" -> 2
    [] m = "mNat" -> 3

\* Access flags.
IsDefault(m) == m \in {"iDef", "cpDef"}

IsCopied(m) == m = "cpDef"

IsInvokable(m) == m \in ArtMethods

IsNative(m) == m = "mNat"

\* ArtMethod::GetCanonicalMethod: a method that is not default is canonical;
\* a default method resolves to the method its declaring class declares
\* under the same dex method index.
GetCanonicalMethod(m) ==
  IF ~IsDefault(m)
    THEN m
    ELSE CHOOSE d \in ArtMethods :
           /\ GetDeclaringClass(d) = GetDeclaringClass(m)
           /\ GetDexMethodIndex(d) = GetDexMethodIndex(m)
           /\ ~IsCopied(d)

\* The methods that have a code item (DexFile::GetCodeItem is nullptr for a
\* native or abstract method).
CodeMethods == {m \in ArtMethods : ~IsNative(m)}

\* jlocation is a signed 64 bit integer, held here as its two 32 bit words:
\* hi is the upper word (the value shifted right by 32, sign kept) and lo is
\* the lower word read as an int32_t, so the value is hi * 2^32 + lo when
\* lo >= 0 and (hi + 1) * 2^32 + lo when lo < 0.
JLocation(hi, lo) == [hi |-> hi, lo |-> lo]

\* The jlocation of an integer that fits an int32_t.
FromInt(k) == JLocation(IF k < 0 THEN -1 ELSE 0, k)

\* location < 0.
IsNegative(location) == location.hi < 0

\* static_cast<uint32_t>(location) >= n, for a uint32_t n below 2^31: the
\* cast keeps the lower word alone, and a lower word with its top bit set
\* is 2^31 or more.
Uint32AtLeast(location, n) == location.lo < 0 \/ location.lo >= n

\* location >= n as 64 bit integers, for 0 <= n < 2^31.
AtLeast(location, n) ==
  \/ location.hi > 0
  \/ location.hi = 0 /\ (location.lo < 0 \/ location.lo >= n)

\* The first jlocation whose lower word is zero again: 2^32.
WrappedZero == JLocation(1, 0)

\* The locations an agent passes: one below zero, each offset up to the
\* largest code size, and 2^32.
Locations == {FromInt(k) : k \in -1 .. MaxLen} \cup {WrappedZero}

\* jvmtiError values, and the two outcomes that are no jvmtiError: the return
\* of a void function and the death of the process.
OK == "OK"

INVALID_METHODID == "INVALID_METHODID"

INVALID_LOCATION == "INVALID_LOCATION"

DUPLICATE == "DUPLICATE"

NOT_FOUND == "NOT_FOUND"

VOID == "void"

ABORT == "abort"

JvmtiErrors == {OK, INVALID_METHODID, INVALID_LOCATION, DUPLICATE, NOT_FOUND}

\* ------------------------------------------------------------------------
\* State
\* ------------------------------------------------------------------------

VARIABLES
  breakpoints,  \* ArtJvmTiEnv::breakpoints of each environment
  codeSize,     \* insns_size_in_code_units_ of each method with a code item
  aborted,      \* the process has died (a failed check or a fault)
  last,         \* the call that returned last: its arguments, its result and
                \* the environment's set when it was made
  prev,         \* the call before it, kept when it went through (it returned
                \* OK, or was a RemoveBreakpointsInClass); NoCall otherwise
  pc,           \* where each thread stands in the call it is making
  cur,          \* the call each thread is making, or made last
  key,          \* the Breakpoint value each thread built from its arguments
  view,         \* the elements of the set each thread's lookup found
  mutator_lock_, \* the threads holding art::Locks::mutator_lock_, by mode
  hist,         \* the calls made since the start, in order, where they are
                \* recorded
  shadow,       \* the set each environment should hold by the results its
                \* calls returned, where it is kept
  hashed        \* the Breakpoint whose hash() was taken last, and the hash

\* What the specifications that do not record leave alone.
ghostVars == <<hist, shadow, hashed>>

seqVars == <<last, prev, hist, shadow, hashed>>

concVars == <<pc, cur, key, view, mutator_lock_>>

vars == <<breakpoints, codeSize, aborted, last, prev,
          pc, cur, key, view, mutator_lock_, hist, shadow, hashed>>

\* A Breakpoint value: the constructor stores both arguments as given.
Breakpoint(m, loc) == [method_ |-> m, location_ |-> loc]

\* The constructor's DCHECK on the method's flags.
BreakpointFlagsOk(m) == ~IsDefault(m) \/ ~IsCopied(m) \/ ~IsInvokable(m)

\* The threads of the agent and of the runtime that call the registry.
Threads == {"t1", "t2"}

\* No Breakpoint built yet.
NoKey == Breakpoint("none", FromInt(0))

\* No hash taken yet.
NoHash == [method_ |-> -1, location_ |-> -1, hash |-> -1]

\* The width of a hash value (size_t) in bits, and the hash values.
HashBits == 4

RECURSIVE Pow2(_)
Pow2(n) == IF n = 0 THEN 1 ELSE 2 * Pow2(n - 1)

HashValues == 0 .. Pow2(HashBits) - 1

\* a ^ b on hash values, bit by bit.
RECURSIVE Xor(_, _)
Xor(a, b) ==
  IF a = 0 /\ b = 0 THEN 0
  ELSE (((a % 2) + (b % 2)) % 2) + (2 * Xor(a \div 2, b \div 2))

\* Breakpoint::hash() of a Breakpoint whose method_ hashes to x
\* (std::hash<uintptr_t>) and whose location_ hashes to y
\* (std::hash<jlocation>).
hash(x, y) == Xor(x, y)

NoCall ==
  [op |-> "none", env |-> "none", method |-> "none", klass |-> "none",
   loc |-> FromInt(0), result |-> "none", before |-> {}]

Call(op, env, method, klass, loc, result, before) ==
  [op |-> op, env |-> env, method |-> method, klass |-> klass,
   loc |-> loc, result |-> result, before |-> before]

\* ------------------------------------------------------------------------
\* The handlers as functions of the set they work on
\* ------------------------------------------------------------------------

\* art::jni::DecodeArtMethod is a reinterpret_cast: a live jmethodID is its
\* ArtMethod. Reading through a stale one is undefined: the read faults, or
\* it finds bytes that read as any method.
DecodeArtMethod(method) ==
  IF method \in ArtMethods THEN {method} ELSE ArtMethods \cup {Fault}

\* Whether ArtMethod::GetCodeItem() is a code item: it is nullptr for a
\* native method, and the read of its insns_size_in_code_units_ faults.
HasCodeItem(sizes, m) == m \in DOMAIN sizes

\* The second operand of the location check, lines 86-87: the location as a
\* uint32_t against the code size.
BeyondCode(location, insns_size) == Uint32AtLeast(location, insns_size)

\* unordered_set::insert: the set with the value, and whether it was added.
Insert(bp, b) ==
  IF b \in bp THEN [set |-> bp, second |-> FALSE]
              ELSE [set |-> bp \cup {b}, second |-> TRUE]

\* An iterator is held as the set of the elements it designates: one
\* element, or none for end().
End == {}

\* unordered_set::find: the position of the value, or end().
Find(bp, b) == {x \in bp : x = b}

\* unordered_set::erase(iterator).
Erase(bp, pos) == bp \ pos

Outcome(result, set) == [result |-> result, set |-> set]

\* The method SetBreakpoint builds its Breakpoint from, line 85.
SetMethod(m) == GetCanonicalMethod(m)

\* SetBreakpoint, lines 85-89 and the Breakpoint constructor, for the
\* ArtMethod the jmethodID decodes to: OK when the call goes on to insert.
SetChecked(m, location, sizes) ==
  IF m = Fault
    THEN ABORT
    ELSE LET art_method == SetMethod(m)
         IN  IF IsNegative(location)
               THEN INVALID_LOCATION
             ELSE IF ~HasCodeItem(sizes, art_method)
               THEN ABORT
             ELSE IF BeyondCode(location, sizes[art_method])
               THEN INVALID_LOCATION
             ELSE IF ~BreakpointFlagsOk(art_method)
               THEN ABORT
             ELSE OK

\* SetBreakpoint as it would be if it did not test res_pair.second.
SetDecodedNoDuplicate(bp, m, location, sizes) ==
  LET checked == SetChecked(m, location, sizes)
  IN  IF checked # OK
        THEN Outcome(checked, bp)
        ELSE Outcome(OK, Insert(bp, Breakpoint(SetMethod(m), location)).set)

\* SetBreakpoint as it would be if it inserted before it checked the
\* location.
SetDecodedInsertFirst(bp, m, location, sizes) ==
  LET checked == SetChecked(m, location, sizes)
  IN  IF m = Fault
        THEN Outcome(ABORT, bp)
        ELSE LET res_pair == Insert(bp, Breakpoint(SetMethod(m), location))
             IN  IF checked # OK
                   THEN Outcome(checked, res_pair.set)
                 ELSE IF ~res_pair.second
                   THEN Outcome(DUPLICATE, res_pair.set)
                   ELSE Outcome(OK, res_pair.set)

\* SetBreakpoint from line 85 on.
SetDecoded(bp, m, location, sizes) ==
  LET checked == SetChecked(m, location, sizes)
  IN  IF checked # OK
        THEN Outcome(checked, bp)
        ELSE LET res_pair == Insert(bp, Breakpoint(SetMethod(m), location))
             IN  IF ~res_pair.second
                   THEN Outcome(DUPLICATE, res_pair.set)
                   ELSE Outcome(OK, res_pair.set)

\* Every outcome of SetBreakpoint(method, location) on the set bp.
SetOutcomes(bp, method, location, sizes) ==
  IF method = NullMethod
    THEN {Outcome(INVALID_METHODID, bp)}
    ELSE {SetDecoded(bp, m, location, sizes) : m \in DecodeArtMethod(method)}

\* ClearBreakpoint's method as it would be without GetCanonicalMethod.
ClearMethodAsGiven(m) == m

\* The method ClearBreakpoint looks up, line 106.
ClearMethod(m) == GetCanonicalMethod(m)

\* ClearBreakpoint, line 106 and the Breakpoint constructor: OK when the
\* call goes on to look the value up.
ClearChecked(m) ==
  IF m = Fault
    THEN ABORT
    ELSE IF ~BreakpointFlagsOk(ClearMethod(m)) THEN ABORT ELSE OK

\* ClearBreakpoint as it would be if it returned without erasing.
ClearDecodedNoErase(bp, m, location) ==
  IF ClearChecked(m) # OK
    THEN Outcome(ABORT, bp)
    ELSE LET pos == Find(bp, Breakpoint(ClearMethod(m), location))
         IN  IF pos = End
               THEN Outcome(NOT_FOUND, bp)
               ELSE Outcome(OK, bp)

\* ClearBreakpoint as it would be if it did not compare pos with end().
ClearDecodedNoEndCheck(bp, m, location) ==
  IF ClearChecked(m) # OK
    THEN Outcome(ABORT, bp)
    ELSE LET pos == Find(bp, Breakpoint(ClearMethod(m), location))
         IN  Outcome(OK, Erase(bp, pos))

\* ClearBreakpoint from line 105 on.
\* Variant: ClearBreakpoint refuses a negative location.
ClearDecodedChecksLocation(bp, m, location) ==
  IF ClearChecked(m) # OK
    THEN Outcome(ABORT, bp)
    ELSE IF IsNegative(location)
      THEN Outcome(INVALID_LOCATION, bp)
      ELSE LET pos == Find(bp, Breakpoint(ClearMethod(m), location))
           IN  IF pos = End
                 THEN Outcome(NOT_FOUND, bp)
                 ELSE Outcome(OK, Erase(bp, pos))

\* Variant: the erase takes every breakpoint of the method with it.
ClearDecodedEraseMethod(bp, m, location) ==
  IF ClearChecked(m) # OK
    THEN Outcome(ABORT, bp)
    ELSE LET pos == Find(bp, Breakpoint(ClearMethod(m), location))
         IN  IF pos = End
               THEN Outcome(NOT_FOUND, bp)
               ELSE Outcome(OK, {b \in bp : b.method_ # ClearMethod(m)})

ClearDecoded(bp, m, location) ==
  IF ClearChecked(m) # OK
    THEN Outcome(ABORT, bp)
    ELSE LET pos == Find(bp, Breakpoint(ClearMethod(m), location))
         IN  IF pos = End
               THEN Outcome(NOT_FOUND, bp)
               ELSE Outcome(OK, Erase(bp, pos))

\* Every outcome of ClearBreakpoint(method, location) on the set bp.
ClearOutcomes(bp, method, location) ==
  IF method = NullMethod
    THEN {Outcome(INVALID_METHODID, bp)}
    ELSE {ClearDecoded(bp, m, location) : m \in DecodeArtMethod(method)}

\* Pass one as it would be if it did not compare the declaring class.
ToRemoveAnyClass(bp, klass) == bp

\* Pass one of RemoveBreakpointsInClass: the breakpoints to_remove collects.
ToRemove(bp, klass) == {b \in bp : GetDeclaringClass(b.method_) = klass}

\* Variant: pass two stops after the first erase.
EraseEachOnce(bp, to_remove) ==
  IF to_remove = {}
    THEN [set |-> bp, found |-> TRUE]
    ELSE LET b == CHOOSE x \in to_remove : TRUE
             it == Find(bp, b)
         IN  [set |-> IF it = End THEN bp ELSE Erase(bp, it),
              found |-> it # End]

\* Variant: each erase of pass two takes every breakpoint of the method
\* with it.
RECURSIVE EraseEachOfMethod(_, _)
EraseEachOfMethod(bp, to_remove) ==
  IF to_remove = {}
    THEN [set |-> bp, found |-> TRUE]
    ELSE LET b == CHOOSE x \in to_remove : TRUE
             it == Find(bp, b)
             rest == EraseEachOfMethod(
                       IF it = End THEN bp
                       ELSE {x \in bp : x.method_ # b.method_},
                       to_remove \ {b})
         IN  [set |-> rest.set, found |-> (it # End) /\ rest.found]

\* Pass two: each collected breakpoint is looked up and erased;
\* found is whether every lookup's DCHECK held.
RECURSIVE EraseEach(_, _)
EraseEach(bp, to_remove) ==
  IF to_remove = {}
    THEN [set |-> bp, found |-> TRUE]
    ELSE LET b == CHOOSE x \in to_remove : TRUE
             it == Find(bp, b)
             rest == EraseEach(IF it = End THEN bp ELSE Erase(bp, it),
                               to_remove \ {b})
         IN  [set |-> rest.set, found |-> (it # End) /\ rest.found]

\* RemoveBreakpointsInClass(klass) on the set bp.
RemoveOutcome(bp, klass) ==
  LET r == EraseEach(bp, ToRemove(bp, klass))
  IN  IF r.found THEN Outcome(VOID, r.set) ELSE Outcome(ABORT, r.set)

\* ------------------------------------------------------------------------
\* The calls, one after the other
\* ------------------------------------------------------------------------

\* The environment the agent of the sequential specification works on.
AgentEnv == "env1"

\* The state after construction, with the given bytecode lengths.
Start(sizes) ==
  /\ breakpoints = [e \in Envs |-> {}]
  /\ codeSize = sizes
  /\ aborted = FALSE
  /\ last = NoCall
  /\ prev = NoCall
  /\ pc = [t \in Threads |-> "idle"]
  /\ cur = [t \in Threads |-> NoCall]
  /\ key = [t \in Threads |-> NoKey]
  /\ view = [t \in Threads |-> {}]
  /\ mutator_lock_ = [shared |-> {}, exclusive |-> {}]
  /\ hist = << >>
  /\ shadow = [e \in Envs |-> {}]
  /\ hashed = NoHash

Init == Start([m \in CodeMethods |-> IF m = "mA" THEN MaxLen ELSE 1])

\* Variant: one set for all the environments.
EffectOnEveryEnv(env, o, call) ==
  /\ breakpoints' = [e \in Envs |-> o.set]
  /\ aborted' = (o.result = ABORT)
  /\ prev' = IF last.result \in {OK, VOID} THEN last ELSE NoCall
  /\ last' = call
  /\ UNCHANGED codeSize
  /\ UNCHANGED concVars

\* What a call that returns does to the environment's set and to the
\* record of the last calls.
Effect(env, o, call) ==
  /\ breakpoints' = [breakpoints EXCEPT ![env] = o.set]
  /\ aborted' = (o.result = ABORT)
  /\ prev' = IF last.result \in {OK, VOID} THEN last ELSE NoCall
  /\ last' = call
  /\ UNCHANGED codeSize
  /\ UNCHANGED concVars

Returned(env, o, call) ==
  /\ Effect(env, o, call)
  /\ UNCHANGED ghostVars

SetBreakpoint(env, method, location) ==
  /\ ~aborted
  /\ \E o \in SetOutcomes(breakpoints[env], method, location, codeSize) :
       Returned(env, o, Call("Set", env, method, "none", location, o.result,
                             breakpoints[env]))

ClearBreakpoint(env, method, location) ==
  /\ ~aborted
  /\ \E o \in ClearOutcomes(breakpoints[env], method, location) :
       Returned(env, o, Call("Clear", env, method, "none", location, o.result,
                             breakpoints[env]))

RemoveBreakpointsInClass(env, klass) ==
  /\ ~aborted
  /\ LET o == RemoveOutcome(breakpoints[env], klass)
     IN  Returned(env, o, Call("Remove", env, "none", klass, FromInt(0), o.result,
                               breakpoints[env]))

Next ==
  \/ \E method \in MethodIds, location \in Locations :
       SetBreakpoint(AgentEnv, method, location)
  \/ \E method \in MethodIds, location \in Locations :
       ClearBreakpoint(AgentEnv, method, location)
  \/ \E klass \in Classes : RemoveBreakpointsInClass(AgentEnv, klass)

Spec == Init /\ [][Next]_vars

\* ------------------------------------------------------------------------
\* The calls, step by step, made by several threads
\* ------------------------------------------------------------------------

\* The arguments the threads pass.
ConcMethods == {NullMethod, "mA", "iDef", "cpDef"}

ConcLocations == {FromInt(-1), FromInt(0)}

\* mutator_lock_ is a reader-writer lock: any number of threads hold it
\* shared, or one holds it exclusively.
CanLockShared(lock) == lock.exclusive = {}

CanLockExclusive(lock) == lock.shared = {} /\ lock.exclusive = {}

LockShared(lock, t) == [lock EXCEPT !.shared = @ \cup {t}]

LockExclusive(lock, t) == [lock EXCEPT !.exclusive = @ \cup {t}]

Unlock(lock, t) == [shared |-> lock.shared \ {t},
                    exclusive |-> lock.exclusive \ {t}]

\* The thread is a reader or the writer of mutator_lock_.
Holds(t) == t \in mutator_lock_.shared \cup mutator_lock_.exclusive

\* What is left of a call that has returned: its result.
Returns(result) == [NoCall EXCEPT !.result = result]

\* The thread's call returns: its locals are gone and the scope of its
\* ScopedObjectAccess ends.
Return(t, result) ==
  /\ cur' = [cur EXCEPT ![t] = Returns(result)]
  /\ key' = [key EXCEPT ![t] = NoKey]
  /\ view' = [view EXCEPT ![t] = {}]
  /\ pc' = [pc EXCEPT ![t] = "idle"]
  /\ mutator_lock_' = Unlock(mutator_lock_, t)

\* The process dies in the thread's call.
Abort(t) ==
  /\ aborted' = TRUE
  /\ cur' = [cur EXCEPT ![t].result = ABORT]
  /\ UNCHANGED <<pc, key, view, mutator_lock_>>

\* SetBreakpoint and ClearBreakpoint up to the nullptr test, lines 78-82 and
\* 98-102.
Enter(t, op, env, method, location) ==
  /\ ~aborted
  /\ pc[t] = "idle"
  /\ IF method = NullMethod
       THEN /\ cur' = [cur EXCEPT ![t] = Returns(INVALID_METHODID)]
            /\ UNCHANGED pc
       ELSE /\ cur' = [cur EXCEPT ![t] = Call(op, env, method, "none",
                                               location, "none", {})]
            /\ pc' = [pc EXCEPT ![t] = "soa"]
  /\ UNCHANGED <<breakpoints, codeSize, aborted, seqVars, key, view,
                 mutator_lock_>>

\* art::ScopedObjectAccess soa, lines 84 and 104: the thread becomes
\* runnable, which takes mutator_lock_ shared.
ScopedObjectAccess(t) ==
  /\ ~aborted
  /\ pc[t] = "soa"
  /\ CanLockShared(mutator_lock_)
  /\ mutator_lock_' = LockShared(mutator_lock_, t)
  /\ pc' = [pc EXCEPT ![t] = "resolve"]
  /\ UNCHANGED <<breakpoints, codeSize, aborted, seqVars, cur, key, view>>

\* Lines 85-89 of SetBreakpoint and line 106 of ClearBreakpoint: the method
\* is decoded and made canonical, SetBreakpoint checks the location, and
\* the Breakpoint value is built.
Resolve(t) ==
  /\ ~aborted
  /\ pc[t] = "resolve"
  /\ \E m \in DecodeArtMethod(cur[t].method) :
       LET set == cur[t].op = "Set"
           checked == IF set THEN SetChecked(m, cur[t].loc, codeSize)
                             ELSE ClearChecked(m)
       IN  IF checked = OK
             THEN /\ key' = [key EXCEPT ![t] =
                               Breakpoint(IF set THEN SetMethod(m)
                                                 ELSE ClearMethod(m),
                                          cur[t].loc)]
                  /\ pc' = [pc EXCEPT ![t] = "lookup"]
                  /\ UNCHANGED <<aborted, cur, view, mutator_lock_>>
           ELSE IF checked = ABORT
             THEN Abort(t)
             ELSE Return(t, checked) /\ UNCHANGED aborted
  /\ UNCHANGED <<breakpoints, codeSize, seqVars>>

\* The first half of breakpoints.insert (line 90) and the whole of
\* breakpoints.find (line 105): the thread reads the set for its value.
Lookup(t) ==
  /\ ~aborted
  /\ pc[t] = "lookup"
  /\ view' = [view EXCEPT ![t] = breakpoints[cur[t].env]]
  /\ pc' = [pc EXCEPT ![t] = "update"]
  /\ UNCHANGED <<breakpoints, codeSize, aborted, seqVars, cur, key,
                 mutator_lock_>>

\* What a write of the set leaves when it adds (add = TRUE) or takes out the
\* key on the strength of a lookup that saw seen, the set being now: the one
\* result when nothing wrote in between; otherwise the write is a data
\* race, which loses the writes made in between, or keeps them, or kills
\* the process.
Written(now, seen, k, add) ==
  LET on(set) == IF add THEN set \cup {k} ELSE set \ {k}
  IN  IF now = seen
        THEN {Outcome(OK, on(seen))}
        ELSE {Outcome(OK, on(seen)), Outcome(OK, on(now)),
              Outcome(ABORT, now)}

\* The second half of breakpoints.insert with lines 91-95, and lines 107-111
\* of ClearBreakpoint: the value the lookup found is reported (DUPLICATE) or
\* erased, the one it did not find is linked in or reported (NOT_FOUND).
Update(t) ==
  /\ ~aborted
  /\ pc[t] = "update"
  /\ LET set == cur[t].op = "Set"
         env == cur[t].env
         found == Find(view[t], key[t]) # End
     IN  IF set = found
           THEN /\ Return(t, IF set THEN DUPLICATE ELSE NOT_FOUND)
                /\ UNCHANGED <<breakpoints, aborted>>
           ELSE \E o \in Written(breakpoints[env], view[t], key[t], set) :
                  /\ breakpoints' = [breakpoints EXCEPT ![env] = o.set]
                  /\ IF o.result = ABORT
                       THEN Abort(t)
                       ELSE Return(t, OK) /\ UNCHANGED aborted
  /\ UNCHANGED <<codeSize, seqVars>>

\* The runtime calls RemoveBreakpointsInClass holding mutator_lock_
\* exclusively; pass one, lines 65-70, collects to_remove.
RemoveCollect(t, env, klass) ==
  /\ ~aborted
  /\ pc[t] = "idle"
  /\ CanLockExclusive(mutator_lock_)
  /\ mutator_lock_' = LockExclusive(mutator_lock_, t)
  /\ cur' = [cur EXCEPT ![t] = Call("Remove", env, "none", klass,
                                     FromInt(0), "none", {})]
  /\ view' = [view EXCEPT ![t] = ToRemove(breakpoints[env], klass)]
  /\ pc' = [pc EXCEPT ![t] = "erase"]
  /\ UNCHANGED <<breakpoints, codeSize, aborted, seqVars, key>>

\* Pass two, lines 71-75, and the return to the runtime, which unlocks.
RemoveErase(t) ==
  /\ ~aborted
  /\ pc[t] = "erase"
  /\ LET r == EraseEach(breakpoints[cur[t].env], view[t])
     IN  /\ breakpoints' = [breakpoints EXCEPT ![cur[t].env] = r.set]
         /\ IF r.found
              THEN Return(t, VOID) /\ UNCHANGED aborted
              ELSE Abort(t)
  /\ UNCHANGED <<codeSize, seqVars>>

ConcNext ==
  \/ \E t \in Threads, op \in {"Set", "Clear"}, method \in ConcMethods,
        location \in ConcLocations :
       Enter(t, op, AgentEnv, method, location)
  \/ \E t \in Threads : ScopedObjectAccess(t)
  \/ \E t \in Threads : Resolve(t)
  \/ \E t \in Threads : Lookup(t)
  \/ \E t \in Threads : Update(t)
  \/ \E t \in Threads, klass \in Classes : RemoveCollect(t, AgentEnv, klass)
  \/ \E t \in Threads : RemoveErase(t)

SpecConc == Init /\ [][ConcNext]_vars

\* ------------------------------------------------------------------------
\* What the claims speak of
\* ------------------------------------------------------------------------

\* The method reference resolves to a live method.
Resolves(method) == method \in ArtMethods

\* The identity (canonical method, location) of a resolvable reference.
Identity(method, location) == Breakpoint(GetCanonicalMethod(method), location)

\* The set of the environment the last call was made on.
SetNow == breakpoints[last.env]

\* The last call was made right after a call op that went through, on the
\* same environment.
After(op) == prev.op = op /\ last.env = prev.env

\* The last two calls name the same canonical method and the same location.
SameIdentity ==
  /\ Resolves(prev.method)
  /\ Resolves(last.method)
  /\ Identity(last.method, last.loc) = Identity(prev.method, prev.loc)

JvmtiFailures == {INVALID_METHODID, INVALID_LOCATION, DUPLICATE, NOT_FOUND}

\* ------------------------------------------------------------------------
\* C1
\* ------------------------------------------------------------------------

\* C1 (Uniqueness): a SetBreakpoint(m', l) made right after a successful
\* SetBreakpoint(m, l), with m' resolving to the canonical method of m,
\* returns DUPLICATE and leaves the set and its size as they were; and no
\* set holds two values with the same canonical method and location.
C1_Uniqueness ==
  /\ (After("Set") /\ prev.result = OK /\ last.op = "Set" /\ SameIdentity)
       => /\ last.result = DUPLICATE
          /\ SetNow = last.before
          /\ Cardinality(SetNow) = Cardinality(last.before)
  /\ \A e \in Envs : \A b1, b2 \in breakpoints[e] :
       (/\ GetCanonicalMethod(b1.method_) = GetCanonicalMethod(b2.method_)
        /\ b1.location_ = b2.location_) => b1 = b2

\* C1's case: a breakpoint set through the copied default method, then set
\* again through the interface's method.
C1_Witness ==
  /\ After("Set") /\ prev.result = OK /\ last.op = "Set" /\ SameIdentity
  /\ prev.method = "cpDef" /\ last.method = "iDef"
  /\ last.result = DUPLICATE
  /\ Cardinality(SetNow) >= 2

\* ------------------------------------------------------------------------
\* C2
\* ------------------------------------------------------------------------

\* C2 (Round-trip): a ClearBreakpoint(m, l) made right after a successful
\* SetBreakpoint(m, l) returns OK and leaves the set equal to the set the
\* SetBreakpoint was made on, which does not hold (canonical(m), l).
C2_RoundTrip ==
  (/\ After("Set") /\ prev.result = OK /\ Resolves(prev.method)
   /\ last.op = "Clear" /\ last.method = prev.method /\ last.loc = prev.loc)
    => /\ last.result = OK
       /\ SetNow = prev.before
       /\ Identity(last.method, last.loc) \notin SetNow

\* C2's case: the round trip made on a set that holds other breakpoints.
C2_Witness ==
  /\ After("Set") /\ prev.result = OK /\ Resolves(prev.method)
  /\ last.op = "Clear" /\ last.method = prev.method /\ last.loc = prev.loc
  /\ last.result = OK
  /\ prev.before # {}
  /\ SetNow = prev.before

\* ------------------------------------------------------------------------
\* C3
\* ------------------------------------------------------------------------

\* C3 (Cascade on class removal): RemoveBreakpointsInClass(C) leaves exactly
\* the breakpoints of the set whose method's declaring class is not C.
C3_Cascade ==
  last.op = "Remove"
    => /\ last.result = VOID
       /\ SetNow = {b \in last.before :
                      GetDeclaringClass(b.method_) # last.klass}

\* C3's case: the set held a breakpoint of the class and one of another.
C3_Witness ==
  /\ last.op = "Remove"
  /\ \E b \in last.before : GetDeclaringClass(b.method_) = last.klass
  /\ \E b \in last.before : GetDeclaringClass(b.method_) # last.klass
  /\ SetNow # {}
  /\ SetNow # last.before

\* ------------------------------------------------------------------------
\* C4
\* ------------------------------------------------------------------------

\* C4 (Location bounds): for a resolvable m whose canonical method has code
\* size N, SetBreakpoint(m, l) returns INVALID_LOCATION for every l < 0 and
\* every l >= N, and OK for every 0 <= l < N whose identity is not in the
\* set.
C4_LocationBounds ==
  (/\ last.op = "Set" /\ Resolves(last.method)
   /\ HasCodeItem(codeSize, GetCanonicalMethod(last.method)))
    => LET N == codeSize[GetCanonicalMethod(last.method)]
           outside == IsNegative(last.loc) \/ AtLeast(last.loc, N)
       IN  /\ outside => last.result = INVALID_LOCATION
           /\ (~outside /\ Identity(last.method, last.loc) \notin last.before)
                => last.result = OK

\* ------------------------------------------------------------------------
\* C5
\* ------------------------------------------------------------------------

\* C5 (Canonicalization aliasing): a ClearBreakpoint(b, l) made right after
\* a successful SetBreakpoint(a, l), with a and b resolving to the same
\* canonical method, returns OK and removes the breakpoint.
C5_Aliasing ==
  (After("Set") /\ prev.result = OK /\ last.op = "Clear" /\ SameIdentity)
    => /\ last.result = OK
       /\ Identity(prev.method, prev.loc) \in last.before
       /\ Identity(prev.method, prev.loc) \notin SetNow

\* C5's case: set through the copied default method, cleared through the
\* interface's method.
C5_Witness ==
  /\ After("Set") /\ prev.result = OK /\ last.op = "Clear" /\ SameIdentity
  /\ prev.method = "cpDef" /\ last.method = "iDef"
  /\ last.result = OK

\* ------------------------------------------------------------------------
\* C6
\* ------------------------------------------------------------------------

\* C6 (All-or-nothing): a SetBreakpoint or ClearBreakpoint that returns an
\* error leaves the set as it was before the call.
C6_AllOrNothing ==
  (last.op \in {"Set", "Clear"} /\ last.result \in JvmtiFailures)
    => SetNow = last.before

\* C6's case: a SetBreakpoint refused for its location on a set that holds
\* breakpoints.
C6_Witness ==
  /\ last.op = "Set" /\ last.result = INVALID_LOCATION
  /\ ~IsNegative(last.loc)
  /\ last.before # {}
  /\ SetNow = last.before

\* ------------------------------------------------------------------------
\* C7
\* ------------------------------------------------------------------------

\* C7 (InvalidMethod): SetBreakpoint and ClearBreakpoint return
\* INVALID_METHODID for every method reference that does not resolve to a
\* live method, whatever the location and the set.
C7_InvalidMethod ==
  (last.op \in {"Set", "Clear"} /\ ~Resolves(last.method))
    => last.result = INVALID_METHODID

\* ------------------------------------------------------------------------
\* C8
\* ------------------------------------------------------------------------

\* C8 (No request is fatal): every SetBreakpoint and ClearBreakpoint returns
\* one of the five jvmtiError values, and no call kills the process. It is
\* stated for the calls whose method reference is nullptr or a live method,
\* a native one among them; a stale reference is the case of C7.
C8_NoFatal ==
  (last.op \in {"Set", "Clear"} /\ last.method # StaleMethod)
    => /\ last.result \in JvmtiErrors
       /\ ~aborted

\* ------------------------------------------------------------------------
\* C9
\* ------------------------------------------------------------------------

\* The thread is inside an access to the set: between the lookup of
\* insert or find and the write that follows it, or between the two passes
\* of RemoveBreakpointsInClass.
InSet(t) == pc[t] \in {"update", "erase"}

\* The access the thread is inside ends with a write of the set.
Writing(t) ==
  \/ pc[t] = "erase"
  \/ pc[t] = "update" /\ (cur[t].op = "Set") # (key[t] \in view[t])

\* C9 (Sequential execution under the lock): a thread that is inside an
\* access to the set holds mutator_lock_, and the lock keeps the other
\* threads out of the set meanwhile. It is stated for the accesses of which
\* one at least writes: no write of the set overlaps another access.
C9_Sequential ==
  \A t \in Threads :
    InSet(t) => /\ Holds(t)
                /\ \A u \in Threads \ {t} :
                     ~(InSet(u) /\ (Writing(t) \/ Writing(u)))

\* ------------------------------------------------------------------------
\* C10
\* ------------------------------------------------------------------------

\* C10 (ClearBreakpoint of an absent breakpoint): ClearBreakpoint(m, l) for
\* a resolvable m whose identity is not in the set returns NOT_FOUND; so
\* does a second ClearBreakpoint(m, l) right after a successful one, and a
\* ClearBreakpoint(m, l) right after RemoveBreakpointsInClass of the
\* declaring class of canonical(m).
C10_NotFound ==
  /\ (/\ last.op = "Clear" /\ Resolves(last.method)
      /\ Identity(last.method, last.loc) \notin last.before)
       => last.result = NOT_FOUND
  /\ (/\ After("Clear") /\ prev.result = OK /\ Resolves(prev.method)
      /\ last.op = "Clear" /\ last.method = prev.method
      /\ last.loc = prev.loc)
       => last.result = NOT_FOUND
  /\ (/\ After("Remove") /\ last.op = "Clear" /\ Resolves(last.method)
      /\ GetDeclaringClass(GetCanonicalMethod(last.method)) = prev.klass)
       => last.result = NOT_FOUND

\* C10's case: the second of two ClearBreakpoint calls for a breakpoint
\* that was set.
C10_Witness ==
  /\ After("Clear") /\ prev.result = OK /\ Resolves(prev.method)
  /\ Identity(prev.method, prev.loc) \in prev.before
  /\ last.op = "Clear" /\ last.method = prev.method /\ last.loc = prev.loc
  /\ last.result = NOT_FOUND

\* ------------------------------------------------------------------------
\* C11: the scenario of six calls on a method longer than ten code units
\* ------------------------------------------------------------------------

\* The longest recorded sequence of calls.
MaxHist == 6

\* The scenario's method, its bytecode lengths (greater than 10) and the
\* locations and classes its calls name.
ScenarioMethod == "mA"

ScenarioSizes == 11 .. 12

ScenarioLocations == {FromInt(0), FromInt(10)}

ScenarioClasses == {GetDeclaringClass(ScenarioMethod)}

InitScenario ==
  \E n \in ScenarioSizes :
    Start([m \in CodeMethods |-> IF m = ScenarioMethod THEN n ELSE 1])

\* The call joins the recorded sequence.
Recorded(call) ==
  /\ Len(hist) < MaxHist
  /\ hist' = Append(hist, call)
  /\ UNCHANGED <<shadow, hashed>>

RecordedSetBreakpoint(env, method, location) ==
  /\ ~aborted
  /\ \E o \in SetOutcomes(breakpoints[env], method, location, codeSize) :
       LET call == Call("Set", env, method, "none", location, o.result,
                        breakpoints[env])
       IN  Effect(env, o, call) /\ Recorded(call)

RecordedClearBreakpoint(env, method, location) ==
  /\ ~aborted
  /\ \E o \in ClearOutcomes(breakpoints[env], method, location) :
       LET call == Call("Clear", env, method, "none", location, o.result,
                        breakpoints[env])
       IN  Effect(env, o, call) /\ Recorded(call)

RecordedRemoveBreakpointsInClass(env, klass) ==
  /\ ~aborted
  /\ LET o == RemoveOutcome(breakpoints[env], klass)
         call == Call("Remove", env, "none", klass, FromInt(0), o.result,
                      breakpoints[env])
     IN  Effect(env, o, call) /\ Recorded(call)

NextScenario ==
  \/ \E location \in ScenarioLocations :
       RecordedSetBreakpoint(AgentEnv, ScenarioMethod, location)
  \/ \E location \in ScenarioLocations :
       RecordedClearBreakpoint(AgentEnv, ScenarioMethod, location)
  \/ \E klass \in ScenarioClasses :
       RecordedRemoveBreakpointsInClass(AgentEnv, klass)

SpecScenario == InitScenario /\ [][NextScenario]_vars

\* The six calls of the scenario, what each returns and the sizes of the
\* set the scenario names.
Script ==
  << [op |-> "Set", loc |-> FromInt(0)], [op |-> "Set", loc |-> FromInt(0)],
     [op |-> "Set", loc |-> FromInt(10)], [op |-> "Clear", loc |-> FromInt(0)],
     [op |-> "Clear", loc |-> FromInt(0)], [op |-> "Remove", loc |-> FromInt(0)] >>

ScriptResult == <<OK, DUPLICATE, OK, OK, NOT_FOUND, VOID>>

ScriptSize == (3 :> 2) @@ (4 :> 1) @@ (6 :> 0)

\* The first n recorded calls are the first n calls of the scenario.
Followed(n) ==
  /\ n <= Len(hist) /\ n <= Len(Script)
  /\ \A i \in 1 .. n :
       /\ hist[i].op = Script[i].op
       /\ hist[i].op = "Remove" =>
            hist[i].klass = GetDeclaringClass(ScenarioMethod)
       /\ hist[i].op # "Remove" =>
            hist[i].method = ScenarioMethod /\ hist[i].loc = Script[i].loc

\* The size of the set after the i-th recorded call.
SizeAfter(i) ==
  IF i < Len(hist) THEN Cardinality(hist[i + 1].before)
  ELSE Cardinality(breakpoints[AgentEnv])

\* C11 (scenario): starting from an empty registry, for a method of
\* bytecode length greater than 10, SetBreakpoint(mA, 0) returns OK,
\* SetBreakpoint(mA, 0) again returns DUPLICATE, SetBreakpoint(mA, 10)
\* returns OK and the set has size 2, ClearBreakpoint(mA, 0) returns OK and
\* the set has size 1, ClearBreakpoint(mA, 0) again returns NOT_FOUND, and
\* RemoveBreakpointsInClass of mA's declaring class leaves the set empty.
C11_Scenario ==
  \A n \in 1 .. Len(hist) :
    Followed(n) =>
      /\ hist[n].result = ScriptResult[n]
      /\ n \in DOMAIN ScriptSize => SizeAfter(n) = ScriptSize[n]

\* C11's case: the six calls of the scenario have been made in order.
C11_Witness ==
  /\ Followed(Len(Script))
  /\ hist[Len(Script)].before # {}
  /\ breakpoints[AgentEnv] = {}

\* ------------------------------------------------------------------------
\* C12: the hash of a breakpoint
\* ------------------------------------------------------------------------

\* Breakpoint::hash() is taken of a Breakpoint whose two fields hash to x
\* and y.
TakeHash(x, y) ==
  /\ hashed' = [method_ |-> x, location_ |-> y, hash |-> hash(x, y)]
  /\ UNCHANGED <<breakpoints, codeSize, aborted, last, prev, hist, shadow>>
  /\ UNCHANGED concVars

NextHash == \E x \in HashValues, y \in HashValues : TakeHash(x, y)

SpecHash == Init /\ [][NextHash]_vars

\* C12 (order-sensitive hash): the hash of a breakpoint combines the hash
\* of the method and the hash of the location so that, for component hash
\* values x # y, combining (x, y) differs from combining (y, x).
C12_OrderSensitive ==
  (hashed # NoHash /\ hashed.method_ # hashed.location_)
    => hashed.hash # hash(hashed.location_, hashed.method_)

\* ------------------------------------------------------------------------
\* C13: two environments
\* ------------------------------------------------------------------------

\* What the agents of the two environments call with.
EnvMethods == {NullMethod, StaleMethod, "mA", "cpDef"}

EnvLocations == {FromInt(-1), FromInt(0), FromInt(1)}

EnvClasses == {"A", "I"}

NextEnvs ==
  \/ \E env \in Envs, method \in EnvMethods, location \in EnvLocations :
       SetBreakpoint(env, method, location)
  \/ \E env \in Envs, method \in EnvMethods, location \in EnvLocations :
       ClearBreakpoint(env, method, location)
  \/ \E env \in Envs, klass \in EnvClasses :
       RemoveBreakpointsInClass(env, klass)

SpecEnvs == Init /\ [][NextEnvs]_vars

\* C13 (isolation of environments): SetBreakpoint, ClearBreakpoint and
\* RemoveBreakpointsInClass called on one environment leave the set of
\* every other environment as it was, whatever the call returns.
C13_Isolation ==
  [][\A e \in Envs : e # last'.env => breakpoints'[e] = breakpoints[e]]_vars

\* C13's case: a call on env2 went through while env1 holds breakpoints
\* that env2 does not.
C13_Witness ==
  /\ last.env = "env2" /\ last.result \in {OK, VOID}
  /\ SetNow # last.before
  /\ breakpoints["env1"] # {}
  /\ breakpoints["env1"] # breakpoints["env2"]
  /\ breakpoints["env1"] # last.before

\* ------------------------------------------------------------------------
\* C14
\* ------------------------------------------------------------------------

\* C14 (the cascade cannot fail and is idempotent):
\* RemoveBreakpointsInClass always completes; when no breakpoint of the set
\* belongs to the class the set is unchanged; a second call with the same
\* class right after the first leaves the set as the first left it.
C14_Idempotent ==
  /\ last.op = "Remove" => last.result = VOID /\ ~aborted
  /\ (/\ last.op = "Remove"
      /\ \A b \in last.before : GetDeclaringClass(b.method_) # last.klass)
       => SetNow = last.before
  /\ (/\ After("Remove") /\ last.op = "Remove" /\ last.klass = prev.klass)
       => SetNow = last.before

\* C14's case: the second of two cascades of one class, the first of which
\* removed two breakpoints or more and left others.
C14_Witness ==
  /\ After("Remove") /\ last.op = "Remove" /\ last.klass = prev.klass
  /\ Cardinality(prev.before) >= Cardinality(last.before) + 2
  /\ last.before # {}
  /\ SetNow = last.before

\* ------------------------------------------------------------------------
\* C15: the registry against the set its results describe
\* ------------------------------------------------------------------------

\* The identity a call names: the canonical method of the reference and
\* the location, when the reference resolves.
Named(call) ==
  IF Resolves(call.method) THEN {Identity(call.method, call.loc)} ELSE {}

\* The abstract set after the call: a SetBreakpoint that returned OK adds
\* the identity it names, a ClearBreakpoint that returned OK takes it out,
\* a RemoveBreakpointsInClass takes out the identities of the class.
AbstractStep(a, call) ==
  IF call.op = "Set" /\ call.result = OK THEN a \cup Named(call)
  ELSE IF call.op = "Clear" /\ call.result = OK THEN a \ Named(call)
  ELSE IF call.op = "Remove"
    THEN {b \in a : GetDeclaringClass(b.method_) # call.klass}
  ELSE a

Tracked(env, call) ==
  /\ shadow' = [shadow EXCEPT ![env] = AbstractStep(shadow[env], call)]
  /\ UNCHANGED <<hist, hashed>>

TrackedSetBreakpoint(env, method, location) ==
  /\ ~aborted
  /\ \E o \in SetOutcomes(breakpoints[env], method, location, codeSize) :
       LET call == Call("Set", env, method, "none", location, o.result,
                        breakpoints[env])
       IN  Effect(env, o, call) /\ Tracked(env, call)

TrackedClearBreakpoint(env, method, location) ==
  /\ ~aborted
  /\ \E o \in ClearOutcomes(breakpoints[env], method, location) :
       LET call == Call("Clear", env, method, "none", location, o.result,
                        breakpoints[env])
       IN  Effect(env, o, call) /\ Tracked(env, call)

TrackedRemoveBreakpointsInClass(env, klass) ==
  /\ ~aborted
  /\ LET o == RemoveOutcome(breakpoints[env], klass)
         call == Call("Remove", env, "none", klass, FromInt(0), o.result,
                      breakpoints[env])
     IN  Effect(env, o, call) /\ Tracked(env, call)

\* What the agent of the tracked calls calls with.
TrackedMethods == {NullMethod, StaleMethod, "mA", "cpDef"}

TrackedLocations == {FromInt(-1), FromInt(0), WrappedZero}

TrackedClasses == {"A", "I"}

NextAbstract ==
  \/ \E method \in TrackedMethods, location \in TrackedLocations :
       TrackedSetBreakpoint(AgentEnv, method, location)
  \/ \E method \in TrackedMethods, location \in TrackedLocations :
       TrackedClearBreakpoint(AgentEnv, method, location)
  \/ \E klass \in TrackedClasses :
       TrackedRemoveBreakpointsInClass(AgentEnv, klass)

SpecAbstract == Init /\ [][NextAbstract]_vars

\* C15 (refinement of the abstract set): after any sequence of calls from
\* the empty registry the set is the set of the identities (canonical
\* method, location) whose last successful SetBreakpoint was followed by
\* no successful ClearBreakpoint of the identity and no
\* RemoveBreakpointsInClass of its class; a successful SetBreakpoint makes
\* the set one larger, a successful ClearBreakpoint one smaller, and
\* ClearBreakpoint and RemoveBreakpointsInClass add nothing.
C15_Refinement ==
  /\ \A e \in Envs : breakpoints[e] = shadow[e]
  /\ (last.op = "Set" /\ last.result = OK)
       => Cardinality(SetNow) = Cardinality(last.before) + 1
  /\ (last.op = "Clear" /\ last.result = OK)
       => Cardinality(SetNow) = Cardinality(last.before) - 1
  /\ last.op \in {"Clear", "Remove"} => SetNow \subseteq last.before

\* ------------------------------------------------------------------------
\* C16: the bytecode length changes between calls
\* ------------------------------------------------------------------------

\* The method's code item is replaced by one of n code units; the
\* registry is left as it is.
RedefineMethod(env, m, n) ==
  /\ ~aborted
  /\ codeSize' = [codeSize EXCEPT ![m] = n]
  /\ prev' = IF last.result \in {OK, VOID} THEN last ELSE NoCall
  /\ last' = Call("Redefine", env, m, "none", FromInt(0), VOID,
                  breakpoints[env])
  /\ UNCHANGED <<breakpoints, aborted>>
  /\ UNCHANGED concVars
  /\ UNCHANGED ghostVars

\* What the agent calls with while methods are redefined.
RedefineMethods == {NullMethod, "mA", "cpDef"}

RedefineClasses == {"A", "I"}

\* The methods that are redefined: the canonical ones with code.
RedefinedMethods == {m \in CodeMethods : GetCanonicalMethod(m) = m}

NextRedefine ==
  \/ \E method \in RedefineMethods, location \in Locations :
       SetBreakpoint(AgentEnv, method, location)
  \/ \E method \in RedefineMethods, location \in Locations :
       ClearBreakpoint(AgentEnv, method, location)
  \/ \E klass \in RedefineClasses :
       RemoveBreakpointsInClass(AgentEnv, klass)
  \/ \E m \in RedefinedMethods, n \in 1 .. MaxLen :
       RedefineMethod(AgentEnv, m, n)

SpecRedefine == Init /\ [][NextRedefine]_vars

\* C16 (fresh length, location before duplicate): SetBreakpoint(m, l)
\* judges l against the bytecode length the canonical method has at the
\* time of the call, also after the length changed between calls, and this
\* check comes before the duplicate check: when the identity (m, l) is
\* already in the set and l is at or beyond the present length the call
\* returns INVALID_LOCATION, not DUPLICATE.
C16_FreshLength ==
  (/\ last.op = "Set" /\ Resolves(last.method)
   /\ HasCodeItem(codeSize, GetCanonicalMethod(last.method)))
    => LET n == codeSize[GetCanonicalMethod(last.method)]
           beyond == IsNegative(last.loc) \/ AtLeast(last.loc, n)
       IN  /\ beyond => last.result = INVALID_LOCATION
           /\ ~beyond => last.result \in {OK, DUPLICATE}
           /\ (Identity(last.method, last.loc) \in last.before /\ beyond)
                => last.result # DUPLICATE

\* ------------------------------------------------------------------------
\* C17
\* ------------------------------------------------------------------------

\* C17 (the two passes of the cascade): in every reachable state and for
\* every class, what pass one collects is in the set, and pass two finds
\* each collected breakpoint when it looks it up (the DCHECK of pass two
\* holds), so no RemoveBreakpointsInClass aborts.
C17_TwoPass ==
  /\ \A env \in Envs, klass \in Classes :
       LET to_remove == ToRemove(breakpoints[env], klass)
       IN  /\ to_remove \subseteq breakpoints[env]
           /\ EraseEach(breakpoints[env], to_remove).found
  /\ last.op = "Remove" => last.result # ABORT

\* C17's case: a cascade whose pass one collected two breakpoints or more
\* of one method has returned.
C17_Witness ==
  /\ last.op = "Remove" /\ last.result = VOID
  /\ \E a \in last.before, b \in last.before :
       /\ a # b /\ a.method_ = b.method_
       /\ GetDeclaringClass(a.method_) = last.klass
  /\ \A b \in SetNow : GetDeclaringClass(b.method_) # last.klass

\* ------------------------------------------------------------------------
\* C18
\* ------------------------------------------------------------------------

\* C18 (stored identities are canonical and in range): in every state
\* reached by SetBreakpoint, ClearBreakpoint and RemoveBreakpointsInClass
\* with no method redefined, every breakpoint of the set has a method that
\* is its own canonical form (the constructor's DCHECK on the flags holds)
\* and a location l with 0 <= l < the method's bytecode length.
C18_StoredValid ==
  \A env \in Envs : \A b \in breakpoints[env] :
    /\ GetCanonicalMethod(b.method_) = b.method_
    /\ BreakpointFlagsOk(b.method_)
    /\ HasCodeItem(codeSize, b.method_)
    /\ ~IsNegative(b.location_)
    /\ ~AtLeast(b.location_, codeSize[b.method_])

\* ------------------------------------------------------------------------
\* C19
\* ------------------------------------------------------------------------

\* C19 (ClearBreakpoint does not validate the location): for a resolvable
\* m and a location that is negative or at or beyond the bytecode length,
\* ClearBreakpoint(m, l) returns NOT_FOUND whenever the identity is not in
\* the set; ClearBreakpoint never returns INVALID_LOCATION or DUPLICATE,
\* and SetBreakpoint never returns NOT_FOUND.
C19_ClearLocation ==
  /\ (/\ last.op = "Clear" /\ Resolves(last.method)
      /\ \/ IsNegative(last.loc)
         \/ ~HasCodeItem(codeSize, GetCanonicalMethod(last.method))
         \/ AtLeast(last.loc, codeSize[GetCanonicalMethod(last.method)])
      /\ Identity(last.method, last.loc) \notin last.before)
       => last.result = NOT_FOUND
  /\ last.op = "Clear" => last.result \notin {INVALID_LOCATION, DUPLICATE}
  /\ last.op = "Set" => last.result # NOT_FOUND

\* C19's case: ClearBreakpoint with a negative location, on a set that
\* holds breakpoints of the method, returned NOT_FOUND.
C19_Witness ==
  /\ last.op = "Clear" /\ Resolves(last.method)
  /\ IsNegative(last.loc)
  /\ \E b \in last.before : b.method_ = GetCanonicalMethod(last.method)
  /\ last.result = NOT_FOUND

====
